---- MODULE Spec2Model ----
(***************************************************************************)
(* Model of the print monitor service (src/monitor/app.py): the shared     *)
(* State record, the DockerHandler standby operations, the RTSP frame      *)
(* source with its background reader, the MQTT control channel and the     *)
(* monitor loop, as concurrently running threads.                          *)
(*                                                                         *)
(* Time is counted in units of 60 seconds.  Confidences are percentages.   *)
(***************************************************************************)
EXTENDS Integers, Sequences, FiniteSets, TLC

VARIABLES
    state,      \* the global State object (app.py 80-128)
    cfg,        \* Config.STANDBY_MODE_ENABLED, Config.STANDBY_AUTO_TIMEOUT
                \* and DockerHandler.enabled
    container,  \* status of the ML API container as docker reports it
    now,        \* the clock (datetime.now() / time.time())
    pc,         \* position of each thread
    mon,        \* local variables of monitor_loop
    sh,         \* the RTSPStreamHandler object and its reader thread
    md,         \* MotionDetector.prev_frame_gray is set
    ml,         \* MLAPIHandler.last_health_check
    mq,         \* MQTTHandler.connected
    outbox,     \* failure message handed to the MQTT client by the last tick
    hist,       \* history: the enter_standby/exit_standby call completed last
    commands,   \* number of control commands and standby requests received
    shutdown,   \* shutdown_event is set
    hb,         \* heartbeat_message as heartbeat_loop has built it so far
    clk         \* datetime.now() as each thread's exit_standby has read it

vars ==
    <<state, cfg, container, now, pc, mon, sh, md, ml, mq, outbox, hist,
      commands, shutdown, hb, clk>>

-----------------------------------------------------------------------------
(* Bounds of the model *)

MaxTime == 2
MaxChecks == 1
MaxDet == 2
MaxCommands == 2

(* Program constants, in clock units.  IDLE_TIMEOUT (default 60 s) and     *)
(* STANDBY_AUTO_TIMEOUT are read from the environment; the model runs with *)
(* both at 60 s.  connection_retry_delay is 60 s.  health_check_interval   *)
(* is 30 s: two health checks are inside it when the clock shows the same  *)
(* unit for both.                                                          *)

IDLE_TIMEOUT == 1
STANDBY_AUTO_TIMEOUT == 1
DETECTION_THRESHOLD == 60
connection_retry_delay == 1
health_check_interval == 1

\* A timestamp field that holds None; also the value 0 (the epoch) that
\* last_connection_attempt and last_health_check start with.
NoTime == 0 - 1

\* The threads that call enter_standby and exit_standby
Threads == {"monitor", "mqtt", "http"}

\* All threads of the process (the reader thread is part of sh)
AllThreads == Threads \cup {"heartbeat", "main"}

Confs == {30, 60, 61}

\* One entry of the "detections" list of the ML API response: a well-formed
\* entry [name, confidence, [x, y, w, h]], or an entry the parser skips
\* (not a list, or shorter than 3).
Entries ==
    [wf : {TRUE}, conf : Confs] \cup {[wf |-> FALSE, conf |-> 61]}

RECURSIVE SeqsUpTo(_)
SeqsUpTo(n) ==
    IF n = 0 THEN {<<>>}
    ELSE LET S == SeqsUpTo(n - 1)
         IN  S \cup {Append(s, e) : s \in {x \in S : Len(x) = n - 1}, e \in Entries}

DetectionLists == SeqsUpTo(MaxDet)

\* hist: the operation and the result of the call of enter_standby or
\* exit_standby that returned last, and whether the call that returned before
\* it was the same operation and returned True.
NoHist == [op |-> "none", ret |-> FALSE, again |-> FALSE]

MonLocals0 ==
    [motion |-> FALSE, startStandby |-> FALSE, detections |-> <<>>,
     max_confidence |-> 0, failure_detected |-> FALSE,
     outcome |-> "none", count |-> 0]

\* heartbeat_message before line 691
NoPayload == [status |-> "none"]

-----------------------------------------------------------------------------
(* State.__init__ *)

StateInit ==
    [current_status |-> "starting",
     failure_detected |-> FALSE,
     detection_confidence |-> 0,
     error_message |-> "None",
     mqtt_connected |-> FALSE,
     ml_api_healthy |-> FALSE,
     stream_connected |-> FALSE,
     total_checks |-> 0,
     failed_checks |-> 0,
     last_check_time |-> NoTime,
     last_motion_time |-> NoTime,
     standby_mode |-> FALSE,
     last_activity_time |-> 0,
     ml_container_running |-> TRUE]

\* DockerHandler.__init__: enabled is Config.STANDBY_MODE_ENABLED, and is
\* switched off when the docker client or the container cannot be obtained.
DockerInit ==
    {[standby_enabled |-> FALSE, enabled |-> FALSE],
     [standby_enabled |-> TRUE, enabled |-> FALSE],
     [standby_enabled |-> TRUE, enabled |-> TRUE]}

\* Config.STANDBY_AUTO_TIMEOUT, line 62, as the environment sets it: 0, or
\* the value the model runs with otherwise
AutoTimeouts == {0, STANDBY_AUTO_TIMEOUT}

\* The process after its start, under any configuration
InitAuto ==
    /\ state = StateInit
    /\ cfg \in {[standby_enabled |-> d.standby_enabled,
                 enabled |-> d.enabled,
                 auto_timeout |-> a] : d \in DockerInit, a \in AutoTimeouts}
    /\ container = "running"
    /\ now = 0
    /\ pc = [t \in AllThreads |->
                CASE t = "monitor" -> "top"
                  [] t = "heartbeat" -> "hb_top"
                  [] t = "main" -> "m_wait"
                  [] OTHER -> "idle"]
    /\ mon = MonLocals0
    /\ sh = [running |-> FALSE, reader |-> "none", latest_frame |-> "none",
             captured |-> FALSE, last_connection_attempt |-> NoTime]
    /\ md = FALSE
    /\ ml = NoTime
    /\ mq = FALSE
    /\ outbox = <<>>
    /\ hist = NoHist
    /\ commands = 0
    /\ shutdown = FALSE
    /\ hb = NoPayload
    /\ clk = [t \in Threads |-> NoTime]

\* The process after its start with STANDBY_AUTO_TIMEOUT above 0
Init == InitAuto /\ cfg.auto_timeout = STANDBY_AUTO_TIMEOUT

-----------------------------------------------------------------------------
(* DockerHandler.enter_standby / exit_standby and the container operations  *)
(* they call, executed by thread t.                                        *)

EnterPcs == {"e_begin", "e_stop", "e_upd"}
ExitPcs == {"x_begin", "x_start", "x_upd"}
CallPcs == EnterPcs \cup ExitPcs

\* Where thread t goes on when its call returns: the monitor loop continues
\* at line 587 after exit_standby and sleeps (line 603) after enter_standby;
\* the MQTT and HTTP handlers are done.
Continue(t, op) ==
    IF t = "monitor" THEN (IF op = "exit" THEN "decide" ELSE "top") ELSE "idle"

\* The call `op` of thread t returns r.
Return(t, op, r) ==
    /\ pc' = [pc EXCEPT ![t] = Continue(t, op)]
    /\ mon' = IF Continue(t, op) = "top" THEN MonLocals0 ELSE mon
    /\ hist' = [op |-> op, ret |-> r, again |-> hist.op = op /\ hist.ret]
    /\ clk' = [clk EXCEPT ![t] = NoTime]

Goto(t, p) ==
    /\ pc' = [pc EXCEPT ![t] = p]
    /\ mon' = mon
    /\ hist' = hist
    /\ clk' = clk

\* exit_standby, line 243: the argument datetime.now() is evaluated before
\* State.update takes the lock
ReadClock(t, p) ==
    /\ pc' = [pc EXCEPT ![t] = p]
    /\ mon' = mon
    /\ hist' = hist
    /\ clk' = [clk EXCEPT ![t] = now]

\* enter_standby without the "already in standby" return of lines 215-217
EnterBegin_NoShortcut(t) ==
    /\ UNCHANGED <<state, container>>
    /\ IF ~cfg.enabled THEN Return(t, "enter", FALSE)
       ELSE Goto(t, "e_stop")

\* enter_standby, lines 211-219
EnterBegin(t) ==
    /\ UNCHANGED <<state, container>>
    /\ IF ~cfg.enabled THEN Return(t, "enter", FALSE)
       ELSE IF state.standby_mode THEN Return(t, "enter", TRUE)
       ELSE Goto(t, "e_stop")

\* stop_container, lines 166-180: container.stop(timeout=10) succeeds and
\* the flags are updated, or it raises; enter_standby returns False at line
\* 226 when it raised.
StopContainer(t) ==
    IF ~cfg.enabled
    THEN UNCHANGED <<state, container>> /\ Return(t, "enter", FALSE)
    ELSE \E stopped \in BOOLEAN :
           IF stopped
           THEN /\ container' = "exited"
                /\ state' = [state EXCEPT !.ml_container_running = FALSE,
                                          !.ml_api_healthy = FALSE]
                /\ Goto(t, "e_upd")
           ELSE UNCHANGED <<state, container>> /\ Return(t, "enter", FALSE)

\* enter_standby recording a status of its own at line 221
EnterUpdate_Paused(t) ==
    /\ state' = [state EXCEPT !.standby_mode = TRUE,
                              !.current_status = "paused"]
    /\ container' = container
    /\ Return(t, "enter", TRUE)

\* enter_standby, lines 221-223
EnterUpdate(t) ==
    /\ state' = [state EXCEPT !.standby_mode = TRUE,
                              !.current_status = "standby"]
    /\ container' = container
    /\ Return(t, "enter", TRUE)

\* exit_standby without the `enabled` test of lines 230-232
ExitBegin_IgnoresDisabled(t) ==
    /\ UNCHANGED <<state, container>>
    /\ IF ~state.standby_mode THEN Return(t, "exit", TRUE)
       ELSE Goto(t, "x_start")

\* exit_standby, lines 230-238
ExitBegin(t) ==
    /\ UNCHANGED <<state, container>>
    /\ IF ~cfg.enabled THEN Return(t, "exit", FALSE)
       ELSE IF ~state.standby_mode THEN Return(t, "exit", TRUE)
       ELSE Goto(t, "x_start")

\* start_container setting the flag at line 196 whether or not the container
\* is running in the end
StartContainer_MarksRunning(t) ==
    IF ~cfg.enabled
    THEN UNCHANGED <<state, container>> /\ Return(t, "exit", FALSE)
    ELSE \E started \in BOOLEAN :
           /\ state' = [state EXCEPT !.ml_container_running = TRUE]
           /\ IF started
              THEN container' = "running" /\ ReadClock(t, "x_upd")
              ELSE container' = container /\ Return(t, "exit", FALSE)

\* start_container, lines 182-207: container.start() and the polling of its
\* status; the container is running within 30 polls and the flag is updated,
\* or start() raised or the polls ran out, and exit_standby returns False.
StartContainer(t) ==
    IF ~cfg.enabled
    THEN UNCHANGED <<state, container>> /\ Return(t, "exit", FALSE)
    ELSE \E started \in BOOLEAN :
           IF started
           THEN /\ container' = "running"
                /\ state' = [state EXCEPT !.ml_container_running = TRUE]
                /\ ReadClock(t, "x_upd")
           ELSE UNCHANGED <<state, container>> /\ Return(t, "exit", FALSE)

\* exit_standby leaving standby_mode as it is at line 241
ExitUpdate_KeepsStandby(t) ==
    /\ state' = [state EXCEPT !.current_status = "monitoring",
                              !.last_activity_time = clk[t]]
    /\ container' = container
    /\ Return(t, "exit", TRUE)

\* exit_standby, lines 240-246
ExitUpdate(t) ==
    /\ state' = [state EXCEPT !.standby_mode = FALSE,
                              !.current_status = "monitoring",
                              !.last_activity_time = clk[t]]
    /\ container' = container
    /\ Return(t, "exit", TRUE)

DH_StopContainer ==
    /\ \E t \in Threads : pc[t] = "e_stop" /\ StopContainer(t)
    /\ UNCHANGED <<cfg, now, sh, md, ml, mq, outbox, commands, shutdown, hb>>

DH_EnterUpdate ==
    /\ \E t \in Threads : pc[t] = "e_upd" /\ EnterUpdate(t)
    /\ UNCHANGED <<cfg, now, sh, md, ml, mq, outbox, commands, shutdown, hb>>

DH_StartContainer ==
    /\ \E t \in Threads : pc[t] = "x_start" /\ StartContainer(t)
    /\ UNCHANGED <<cfg, now, sh, md, ml, mq, outbox, commands, shutdown, hb>>

DH_ExitUpdate ==
    /\ \E t \in Threads : pc[t] = "x_upd" /\ ExitUpdate(t)
    /\ UNCHANGED <<cfg, now, sh, md, ml, mq, outbox, commands, shutdown, hb>>

-----------------------------------------------------------------------------
(* The control channel and the HTTP standby endpoints *)

Commands == {"standby", "active", "reboot", "malformed"}

\* MQTTHandler._on_message, lines 291-309.  The control topic is subscribed
\* in _on_connect only when Config.STANDBY_MODE_ENABLED (lines 274-275), and
\* messages arrive while the client is connected.
\* _on_message treating every other command as 'standby'
OnMessage_DefaultsToStandby(command) ==
    CASE command = "active" -> ExitBegin("mqtt")
      [] OTHER -> EnterBegin("mqtt")

\* lines 294-309: the command of the payload is dispatched; an unknown
\* command is logged (line 304), a payload that cannot be decoded raises
\* and is logged (lines 306-309)
OnMessage(command) ==
    CASE command = "standby" -> EnterBegin("mqtt")
      [] command = "active" -> ExitBegin("mqtt")
      [] OTHER -> UNCHANGED <<state, container, pc, mon, hist, clk>>

MQTT_OnMessage ==
    /\ pc["mqtt"] = "idle"
    /\ cfg.standby_enabled
    /\ mq
    /\ commands < MaxCommands
    /\ commands' = commands + 1
    /\ \E command \in Commands : OnMessage(command)
    /\ UNCHANGED <<cfg, now, sh, md, ml, mq, outbox, shutdown, hb>>

\* api_standby_enable, lines 748-758
HTTP_StandbyEnable ==
    /\ pc["http"] = "idle"
    /\ cfg.standby_enabled
    /\ commands < MaxCommands
    /\ commands' = commands + 1
    /\ EnterBegin("http")
    /\ UNCHANGED <<cfg, now, sh, md, ml, mq, outbox, shutdown, hb>>

\* api_standby_disable, lines 760-770
HTTP_StandbyDisable ==
    /\ pc["http"] = "idle"
    /\ cfg.standby_enabled
    /\ commands < MaxCommands
    /\ commands' = commands + 1
    /\ ExitBegin("http")
    /\ UNCHANGED <<cfg, now, sh, md, ml, mq, outbox, shutdown, hb>>

\* MQTTHandler._on_connect, lines 266-284
MQTT_OnConnect ==
    /\ \E rc \in {0, 1} :
         /\ mq' = (rc = 0)
         /\ state' = [state EXCEPT !.mqtt_connected = (rc = 0)]
    /\ UNCHANGED <<cfg, container, now, pc, mon, sh, md, ml, outbox, hist,
                 commands, shutdown, hb, clk>>

\* MQTTHandler._on_disconnect, lines 286-289
MQTT_OnDisconnect ==
    /\ mq
    /\ mq' = FALSE
    /\ state' = [state EXCEPT !.mqtt_connected = FALSE]
    /\ UNCHANGED <<cfg, container, now, pc, mon, sh, md, ml, outbox, hist,
                 commands, shutdown, hb, clk>>

-----------------------------------------------------------------------------
(* RTSPStreamHandler *)

\* get_frame, line 420: the capture pipeline is not running
NeedConnect == ~sh.running \/ sh.reader \notin {"alive", "reading"}

\* connect without the test of lines 362-364
RateLimited_Never == FALSE

\* connect, lines 362-364.  last_connection_attempt starts at 0, the epoch,
\* which is always more than the retry delay in the past.
RateLimited ==
    /\ sh.last_connection_attempt # NoTime
    /\ now - sh.last_connection_attempt < connection_retry_delay

\* connect, lines 360-398: what a call can return and what it leaves in the
\* handler and in State.  Inside the retry window nothing happens; otherwise
\* the capture opens and the reader is started, or it does not open (or
\* raises).
ConnectOutcomes ==
    IF RateLimited
    THEN {[result |-> FALSE, sh |-> sh, state |-> state]}
    ELSE {[result |-> TRUE,
           sh |-> [sh EXCEPT !.last_connection_attempt = now,
                             !.running = TRUE,
                             !.reader = "alive"],
           state |-> [state EXCEPT !.stream_connected = TRUE,
                                   !.error_message = "None"]],
          [result |-> FALSE,
           sh |-> [sh EXCEPT !.last_connection_attempt = now],
           state |-> [state EXCEPT
                        !.stream_connected = FALSE,
                        !.error_message = "Cannot connect to RTSP stream"]]}

\* get_frame without line 426
SlotAfterTake_Keeps(slot) == slot

\* get_frame, lines 424-426: what the buffer holds after the frame is taken
SlotAfterTake(slot) == "none"

\* _reader_loop, lines 400-416: one iteration.  cap.read() delivers a frame,
\* which replaces the buffered one, or fails and the thread ends.
RDR_Read ==
    /\ sh.reader = "alive"
    /\ IF ~sh.running
       THEN sh' = [sh EXCEPT !.reader = "dead"] /\ state' = state
       ELSE \E ret \in BOOLEAN :
              IF ret
              THEN /\ sh' = [sh EXCEPT !.latest_frame = "frame",
                                       !.captured = TRUE]
                   /\ state' = state
              ELSE /\ sh' = [sh EXCEPT !.reader = "dead"]
                   /\ state' = [state EXCEPT !.stream_connected = FALSE]
    /\ UNCHANGED <<cfg, container, now, pc, mon, md, ml, mq, outbox, hist,
                 commands, shutdown, hb, clk>>

\* The same loop in two steps.  Line 402, the loop test: the thread goes on
\* to read, or ends when `running` is False.
RDR_Test ==
    /\ sh.reader = "alive"
    /\ sh' = [sh EXCEPT !.reader = IF sh.running THEN "reading" ELSE "dead"]
    /\ UNCHANGED <<state, cfg, container, now, pc, mon, md, ml, mq, outbox,
                   hist, commands, shutdown, hb, clk>>

\* Lines 404-415: cap.read() returns
RDR_Frame ==
    /\ sh.reader = "reading"
    /\ \E ret \in BOOLEAN :
         IF ret
         THEN /\ sh' = [sh EXCEPT !.latest_frame = "frame",
                                  !.captured = TRUE,
                                  !.reader = "alive"]
              /\ state' = state
         ELSE /\ sh' = [sh EXCEPT !.reader = "dead"]
              /\ state' = [state EXCEPT !.stream_connected = FALSE]
    /\ UNCHANGED <<cfg, container, now, pc, mon, md, ml, mq, outbox, hist,
                   commands, shutdown, hb, clk>>

-----------------------------------------------------------------------------
(* monitor_loop: one tick runs from "top" back to "top" *)

\* line 548: the loop test.  The loop is left when shutdown_event is set.
MON_Test ==
    /\ pc["monitor"] = "top"
    /\ pc' = [pc EXCEPT !["monitor"] = IF shutdown THEN "done" ELSE "get"]
    /\ UNCHANGED <<state, cfg, container, now, mon, sh, md, ml, mq, outbox,
                   hist, commands, shutdown, hb, clk>>

MonGoto(p) == pc' = [pc EXCEPT !["monitor"] = p]

\* time.sleep(Config.CHECK_INTERVAL_SECONDS); continue
EndTick == MonGoto("top") /\ mon' = MonLocals0

\* lines 553-560 counting the tick as a failed check
NoFrame_Counted(st) ==
    [st EXCEPT !.current_status = "error",
               !.error_message = "Cannot capture frame from stream",
               !.failed_checks = @ + 1]

\* lines 553-560 writing the counter back as it was at the start
NoFrame_Resets(st) ==
    [st EXCEPT !.current_status = "error",
               !.error_message = "Cannot capture frame from stream",
               !.failed_checks = 0]

\* lines 553-560: no frame
NoFrame(st) ==
    [st EXCEPT !.current_status = "error",
               !.error_message = "Cannot capture frame from stream"]

\* line 551, get_frame up to line 422 when it has to connect: a failed
\* connect ends the tick at lines 553-560, a successful one goes on to
\* line 424.
MON_GetFrameConnect ==
    /\ pc["monitor"] = "get"
    /\ NeedConnect
    /\ outbox' = <<>>
    /\ \E c \in ConnectOutcomes :
         /\ sh' = c.sh
         /\ IF c.result
            THEN /\ state' = c.state
                 /\ MonGoto("gf_take")
                 /\ mon' = [mon EXCEPT !.startStandby = state.standby_mode]
            ELSE /\ state' = NoFrame(c.state)
                 /\ EndTick
    /\ UNCHANGED <<cfg, container, now, md, ml, mq, hist, commands, shutdown,
                 hb, clk>>

\* MotionDetector.detect, lines 448-461: the first call has no previous frame
\* and reports no motion.
MotionResults == IF md THEN BOOLEAN ELSE {FALSE}

\* get_frame lines 424-427, then lines 553-560 when the buffer is empty and
\* lines 563-585 otherwise: the frame is taken from the buffer, stamped and
\* compared with the previous one, and after motion standby_mode is read.
TakeFrame ==
    /\ sh' = [sh EXCEPT !.latest_frame = SlotAfterTake(sh.latest_frame),
                        !.captured = FALSE]
    /\ IF sh.latest_frame = "none"
       THEN /\ state' = NoFrame(state)
            /\ md' = md
            /\ EndTick
       ELSE \E motion \in MotionResults :
              /\ md' = TRUE
              /\ mon' = [mon EXCEPT !.motion = motion,
                                    !.startStandby =
                                        IF pc["monitor"] = "get"
                                        THEN state.standby_mode ELSE @]
              /\ state' = [state EXCEPT
                             !.last_check_time = now,
                             !.last_motion_time = IF motion THEN now ELSE @]
              /\ MonGoto(IF motion /\ state.standby_mode
                         THEN "x_begin" ELSE "decide")

\* line 551 with the reader running
MON_GetFrame ==
    /\ pc["monitor"] = "get"
    /\ ~NeedConnect
    /\ outbox' = <<>>
    /\ TakeFrame
    /\ UNCHANGED <<cfg, container, now, ml, mq, hist, commands, shutdown, hb,
                 clk>>

\* line 551 after connect has started the reader
MON_TakeFrame ==
    /\ pc["monitor"] = "gf_take"
    /\ TakeFrame
    /\ UNCHANGED <<cfg, container, now, ml, mq, outbox, hist, commands,
                 shutdown, hb, clk>>

MON_ExitBegin ==
    /\ pc["monitor"] = "x_begin"
    /\ ExitBegin("monitor")
    /\ UNCHANGED <<cfg, now, sh, md, ml, mq, outbox, commands, shutdown, hb>>

\* lines 588-589 with <= in place of <
IsActive_Inclusive ==
    /\ state.last_motion_time # NoTime
    /\ now - state.last_motion_time <= IDLE_TIMEOUT

\* lines 588-589
IsActive ==
    /\ state.last_motion_time # NoTime
    /\ now - state.last_motion_time < IDLE_TIMEOUT

\* lines 587-593
MON_Decide ==
    /\ pc["monitor"] = "decide"
    /\ IF ~IsActive
       THEN /\ state' = [state EXCEPT !.current_status = "idle",
                                      !.error_message = "None"]
            /\ MonGoto("auto")
       ELSE /\ state' = state
            /\ MonGoto("sb_chk")
    /\ UNCHANGED <<cfg, container, now, mon, sh, md, ml, mq, outbox, hist,
                 commands, shutdown, hb, clk>>

\* lines 596-599 with >= in place of > at line 599
AutoStandbyDue_Inclusive ==
    /\ cfg.standby_enabled
    /\ cfg.auto_timeout > 0
    /\ ~state.standby_mode
    /\ state.last_activity_time # NoTime
    /\ now - state.last_activity_time >= cfg.auto_timeout

\* lines 596-599
AutoStandbyDue ==
    /\ cfg.standby_enabled
    /\ cfg.auto_timeout > 0
    /\ ~state.standby_mode
    /\ state.last_activity_time # NoTime
    /\ now - state.last_activity_time > cfg.auto_timeout

\* lines 595-604
MON_AutoStandby ==
    /\ pc["monitor"] = "auto"
    /\ IF AutoStandbyDue
       THEN MonGoto("e_begin") /\ mon' = mon
       ELSE EndTick
    /\ UNCHANGED <<state, cfg, container, now, sh, md, ml, mq, outbox, hist,
                 commands, shutdown, hb, clk>>

MON_EnterBegin ==
    /\ pc["monitor"] = "e_begin"
    /\ EnterBegin("monitor")
    /\ UNCHANGED <<cfg, now, sh, md, ml, mq, outbox, commands, shutdown, hb>>

\* the tick without the test of lines 606-610
MON_StandbyCheck_Never ==
    /\ pc["monitor"] = "sb_chk"
    /\ MonGoto("analyze") /\ mon' = mon
    /\ UNCHANGED <<state, cfg, container, now, sh, md, ml, mq, outbox, hist,
                   commands, shutdown, hb, clk>>

\* lines 606-610
MON_StandbyCheck ==
    /\ pc["monitor"] = "sb_chk"
    /\ IF state.standby_mode
       THEN EndTick
       ELSE MonGoto("analyze") /\ mon' = mon
    /\ UNCHANGED <<state, cfg, container, now, sh, md, ml, mq, outbox, hist,
                 commands, shutdown, hb, clk>>

-----------------------------------------------------------------------------
(* The detector call and its evaluation *)

\* MLAPIHandler.check_health, lines 472-495: the cached flag inside the
\* interval, otherwise a probe that finds the API healthy or not.
\* last_health_check starts at 0, the epoch.
HealthOutcomes ==
    IF ml # NoTime /\ now - ml < health_check_interval
    THEN {[last |-> ml, healthy |-> state.ml_api_healthy]}
    ELSE {[last |-> now, healthy |-> h] : h \in BOOLEAN}

Max(a, b) == IF a >= b THEN a ELSE b

\* line 637 with > in place of >=
OverThreshold_Strict(confidence) == confidence > DETECTION_THRESHOLD

\* line 637
OverThreshold(confidence) == confidence >= DETECTION_THRESHOLD

\* lines 628-638: the loop over the detections, acc holding max_confidence
\* and failure_detected
RECURSIVE ParseDetections(_, _)
ParseDetections(detections, acc) ==
    IF detections = <<>> THEN acc
    ELSE LET detection == Head(detections)
             next == IF detection.wf
                     THEN [max_confidence |->
                               Max(acc.max_confidence, detection.conf),
                           failure_detected |->
                               acc.failure_detected \/ OverThreshold(detection.conf)]
                     ELSE acc
         IN  ParseDetections(Tail(detections), next)

\* lines 617-621 counting the call as a check as well
AnalysisFailed_CountsCheck(st, n) ==
    [st EXCEPT !.current_status = "error",
               !.error_message = "ML API analysis failed",
               !.failed_checks = n,
               !.total_checks = @ + 1]

\* lines 617-621, the update after analyze_frame returned None; n is
\* state.failed_checks + 1 as evaluated before the lock is taken
AnalysisFailed(st, n) ==
    [st EXCEPT !.current_status = "error",
               !.error_message = "ML API analysis failed",
               !.failed_checks = n]

\* lines 673-680 without the count
Unhandled_NoCount(st, n) ==
    [st EXCEPT !.current_status = "error",
               !.error_message = "exception"]

\* lines 673-680, the handler of an error raised in the tick; n is
\* state.failed_checks + 1 as evaluated before the lock is taken
Unhandled(st, n) ==
    [st EXCEPT !.current_status = "error",
               !.error_message = "exception",
               !.failed_checks = n]

\* lines 613-638 and the evaluation of the arguments of the update that
\* follows: analyze_frame (with its health check) returns None, or a
\* response whose detections are parsed, or a response of another shape (not
\* a dictionary, a confidence that is not a number), on which lines 625-637
\* raise.  The counter to be written is read here, outside the lock.
MON_Analyze ==
    /\ pc["monitor"] = "analyze"
    /\ \E hc \in HealthOutcomes :
         /\ ml' = hc.last
         /\ state' = [state EXCEPT !.ml_api_healthy = hc.healthy]
         /\ \/ /\ state.failed_checks < MaxChecks
               /\ mon' = [mon EXCEPT !.outcome = "failed",
                                     !.count = state.failed_checks + 1]
            \/ /\ state.failed_checks < MaxChecks
               /\ mon' = [mon EXCEPT !.outcome = "raised",
                                     !.count = state.failed_checks + 1]
            \/ /\ state.total_checks < MaxChecks
               /\ \E detections \in DetectionLists :
                    LET parsed == ParseDetections(detections,
                                      [max_confidence |-> 0,
                                       failure_detected |-> FALSE])
                    IN  mon' = [mon EXCEPT
                                  !.outcome = "result",
                                  !.count = state.total_checks + 1,
                                  !.detections = detections,
                                  !.max_confidence = parsed.max_confidence,
                                  !.failure_detected = parsed.failure_detected]
    /\ MonGoto("record")
    /\ UNCHANGED <<cfg, container, now, sh, md, mq, outbox, hist, commands,
                   shutdown, hb, clk>>

\* lines 617-621, 640-644 and 675-680: the State.update after the detector
\* call
MON_Record ==
    /\ pc["monitor"] = "record"
    /\ CASE mon.outcome = "failed" ->
              state' = AnalysisFailed(state, mon.count) /\ EndTick
         [] mon.outcome = "raised" ->
              state' = Unhandled(state, mon.count) /\ EndTick
         [] OTHER ->
              /\ state' = [state EXCEPT
                             !.total_checks = mon.count,
                             !.detection_confidence = mon.max_confidence,
                             !.failure_detected = mon.failure_detected]
              /\ MonGoto("report")
              /\ mon' = mon
    /\ UNCHANGED <<cfg, container, now, sh, md, ml, mq, outbox, hist,
                   commands, shutdown, hb, clk>>

\* lines 655-660
FailureMessage ==
    [status |-> "failure", confidence |-> mon.max_confidence,
     detections |-> mon.detections]

\* MQTTHandler.publish, lines 324-340: nothing is sent while disconnected,
\* and the client may refuse a message while connected.
Publish(message) == IF mq THEN {<<message>>, <<>>} ELSE {<<>>}

\* lines 646-668
MON_Report ==
    /\ pc["monitor"] = "report"
    /\ IF mon.failure_detected
       THEN /\ state' = [state EXCEPT !.current_status = "failure",
                                      !.error_message = "None",
                                      !.last_activity_time = now]
            /\ outbox' \in Publish(FailureMessage)
       ELSE /\ state' = [state EXCEPT !.current_status = "ok",
                                      !.error_message = "None",
                                      !.last_activity_time = now]
            /\ outbox' = outbox
    /\ EndTick
    /\ UNCHANGED <<cfg, container, now, sh, md, ml, mq, hist, commands,
                 shutdown, hb, clk>>

-----------------------------------------------------------------------------
(* heartbeat_loop *)

HbGoto(p) == pc' = [pc EXCEPT !["heartbeat"] = p]

\* line 689: the loop test
HB_Test ==
    /\ pc["heartbeat"] = "hb_top"
    /\ HbGoto(IF shutdown THEN "hb_done" ELSE "hb_status")
    /\ UNCHANGED <<state, cfg, container, now, mon, sh, md, ml, mq, outbox,
                   hist, commands, shutdown, hb, clk>>

\* line 692: state.current_status is read, without the lock
HB_ReadStatus ==
    /\ pc["heartbeat"] = "hb_status"
    /\ hb' = [status |-> state.current_status]
    /\ HbGoto("hb_rest")
    /\ UNCHANGED <<state, cfg, container, now, mon, sh, md, ml, mq, outbox,
                   hist, commands, shutdown, clk>>

\* lines 694-702: the other fields are read, each without the lock (the
\* reads are taken together here, so every payload of the model is one the
\* code can build), and the message is handed to publish (line 705)
HB_ReadRest ==
    /\ pc["heartbeat"] = "hb_rest"
    /\ hb' = [status |-> hb.status,
              mqtt_connected |-> state.mqtt_connected,
              ml_api_healthy |-> state.ml_api_healthy,
              stream_connected |-> state.stream_connected,
              total_checks |-> state.total_checks,
              failed_checks |-> state.failed_checks,
              detection_confidence |-> state.detection_confidence,
              standby_mode |-> state.standby_mode,
              standby_enabled |-> cfg.standby_enabled,
              ml_container_running |-> state.ml_container_running]
    /\ HbGoto("hb_wait")
    /\ UNCHANGED <<state, cfg, container, now, mon, sh, md, ml, mq, outbox,
                   hist, commands, shutdown, clk>>

\* line 712: shutdown_event.wait returns, on the timeout or on the event
HB_Wait ==
    /\ pc["heartbeat"] = "hb_wait"
    /\ hb' = NoPayload
    /\ HbGoto("hb_top")
    /\ UNCHANGED <<state, cfg, container, now, mon, sh, md, ml, mq, outbox,
                   hist, commands, shutdown, clk>>

-----------------------------------------------------------------------------
(* Shutdown: signal_handler and the end of main *)

MainGoto(p) == pc' = [pc EXCEPT !["main"] = p]

\* signal_handler, lines 788-791
Signal ==
    /\ ~shutdown
    /\ shutdown' = TRUE
    /\ UNCHANGED <<state, cfg, container, now, pc, mon, sh, md, ml, mq, outbox,
                   hist, commands, hb, clk>>

\* main, lines 847-849: the wait loop sees the event
Main_Wake ==
    /\ pc["main"] = "m_wait"
    /\ shutdown
    /\ MainGoto("m_stop")
    /\ UNCHANGED <<state, cfg, container, now, mon, sh, md, ml, mq, outbox,
                   hist, commands, shutdown, hb, clk>>

\* stream_handler.disconnect, line 431
Main_StopReader ==
    /\ pc["main"] = "m_stop"
    /\ sh' = [sh EXCEPT !.running = FALSE]
    /\ MainGoto("m_release")
    /\ UNCHANGED <<state, cfg, container, now, mon, md, ml, mq, outbox, hist,
                   commands, shutdown, hb, clk>>

\* stream_handler.disconnect, lines 432-439, once the join of the reader has
\* returned (the thread ended, or the 3 seconds ran out): the capture is
\* released, on which a reader still inside its loop fails to read and ends;
\* then mqtt_handler.disconnect and the joins of lines 860-861, which wait
\* 5 seconds at most.
Main_Release ==
    /\ pc["main"] = "m_release"
    /\ sh' = [sh EXCEPT !.reader = "none", !.latest_frame = "none",
                        !.captured = FALSE]
    /\ state' = [state EXCEPT !.stream_connected = FALSE]
    /\ MainGoto("m_done")
    /\ UNCHANGED <<cfg, container, now, mon, md, ml, mq, outbox, hist,
                   commands, shutdown, hb, clk>>

-----------------------------------------------------------------------------
\* The clock
\* What is left of a time stamp that is compared only against `interval`
\* when the clock shows `time`: one that is at least `interval` old compares
\* like the epoch.
Forget(stamp, interval, time) ==
    IF stamp # NoTime /\ time - stamp >= interval THEN NoTime ELSE stamp

\* The clock advances while the monitor loop sleeps between two ticks
\* (lines 559, 603, 609, 671): the steps of one tick take less than a unit.
Advance ==
    /\ now < MaxTime
    /\ pc["monitor"] = "top"
    /\ now' = now + 1
    /\ sh' = [sh EXCEPT !.last_connection_attempt =
                           Forget(@, connection_retry_delay, now + 1)]
    /\ ml' = Forget(ml, health_check_interval, now + 1)
    /\ UNCHANGED <<state, cfg, container, pc, mon, md, mq, outbox, hist,
                 commands, shutdown, hb, clk>>

-----------------------------------------------------------------------------
(* Specifications *)

MonitorSteps ==
    \/ MON_Test \/ MON_GetFrameConnect \/ MON_GetFrame \/ MON_TakeFrame
    \/ MON_ExitBegin \/ MON_Decide \/ MON_AutoStandby
    \/ MON_StandbyCheck \/ MON_Analyze \/ MON_Record \/ MON_Report
    \/ RDR_Read

DockerSteps ==
    \/ DH_StopContainer \/ DH_EnterUpdate
    \/ DH_StartContainer \/ DH_ExitUpdate

\* The service left to itself: the clock runs, the camera, the ML API and
\* the broker behave in every way, and standby is entered by the idle
\* timeout and left on motion.  No standby command arrives.
Next ==
    \/ Advance
    \/ MonitorSteps \/ MON_EnterBegin
    \/ DockerSteps
    \/ MQTT_OnConnect \/ MQTT_OnDisconnect

Spec == Init /\ [][Next]_vars

\* Standby commands from the control topic and the HTTP endpoints race with
\* the monitor loop, within one unit of the clock.
NextControl ==
    \/ MonitorSteps
    \/ DockerSteps
    \/ MQTT_OnConnect \/ MQTT_OnDisconnect \/ MQTT_OnMessage
    \/ HTTP_StandbyEnable \/ HTTP_StandbyDisable

SpecControl == Init /\ [][NextControl]_vars

\* The service with standby not available (DockerHandler.enabled is False):
\* every caller of enter_standby and exit_standby, and the clock.
InitDisabled == Init /\ ~cfg.enabled

NextDisabled ==
    \/ Advance
    \/ MON_Test \/ MON_GetFrameConnect \/ MON_GetFrame \/ MON_TakeFrame
    \/ MON_Decide \/ MON_AutoStandby \/ MON_EnterBegin
    \/ MON_StandbyCheck \/ MON_Analyze \/ MON_Record \/ MON_Report
    \/ RDR_Read
    \/ MQTT_OnConnect \/ MQTT_OnDisconnect \/ MQTT_OnMessage
    \/ HTTP_StandbyEnable \/ HTTP_StandbyDisable

SpecDisabled == InitDisabled /\ [][NextDisabled]_vars

\* The heartbeat loop beside the standby commands of the control topic and
\* the HTTP endpoints, while the monitor loop sleeps between two ticks.
HeartbeatSteps == HB_Test \/ HB_ReadStatus \/ HB_ReadRest \/ HB_Wait

NextHeartbeat ==
    \/ DockerSteps
    \/ HeartbeatSteps
    \/ MQTT_OnConnect \/ MQTT_OnDisconnect \/ MQTT_OnMessage
    \/ HTTP_StandbyEnable \/ HTTP_StandbyDisable

SpecHeartbeat == Init /\ [][NextHeartbeat]_vars

\* Standby requests of the HTTP endpoints while the clock runs, with
\* standby available and the broker not connected.
InitClock == Init /\ cfg.enabled

NextClock ==
    \/ Advance
    \/ MonitorSteps \/ MON_EnterBegin
    \/ DockerSteps
    \/ HTTP_StandbyEnable \/ HTTP_StandbyDisable

SpecClock == InitClock /\ [][NextClock]_vars

\* The service left to itself, under any configuration of the auto-standby
\* timeout.
SpecAuto == InitAuto /\ [][Next]_vars

\* Shutdown: the signal arrives at any moment of the three loops, with
\* standby switched off in the configuration and within one unit of the
\* clock.  Every thread that can take a step takes one eventually; nothing
\* is assumed of the signal, the camera and the ML API.
InitShutdown == Init /\ ~cfg.standby_enabled

MonitorLoop ==
    \/ MON_Test \/ MON_GetFrameConnect \/ MON_GetFrame \/ MON_TakeFrame
    \/ MON_Decide \/ MON_AutoStandby \/ MON_StandbyCheck
    \/ MON_Analyze \/ MON_Record \/ MON_Report

MainSteps == Main_Wake \/ Main_StopReader \/ Main_Release

NextShutdown ==
    \/ MonitorLoop
    \/ HeartbeatSteps
    \/ RDR_Test \/ RDR_Frame
    \/ Signal
    \/ MainSteps

SpecShutdown ==
    /\ InitShutdown
    /\ [][NextShutdown]_vars
    /\ WF_vars(MonitorLoop)
    /\ WF_vars(HeartbeatSteps)
    /\ WF_vars(RDR_Test)
    /\ WF_vars(RDR_Frame)
    /\ WF_vars(MainSteps)

\* Concurrent standby requests with a docker daemon that does what it is
\* asked: standby is available, every stop and every start succeeds.
DH_Stopped ==
    /\ DH_StopContainer
    /\ \E t \in Threads : pc[t] = "e_stop" /\ pc'[t] = "e_upd"

DH_Started ==
    /\ DH_StartContainer
    /\ \E t \in Threads : pc[t] = "x_start" /\ pc'[t] = "x_upd"

NextRace ==
    \/ MonitorSteps
    \/ DH_Stopped \/ DH_EnterUpdate
    \/ DH_Started \/ DH_ExitUpdate
    \/ MQTT_OnConnect \/ MQTT_OnDisconnect \/ MQTT_OnMessage
    \/ HTTP_StandbyEnable \/ HTTP_StandbyDisable

SpecRace == InitClock /\ [][NextRace]_vars
-----------------------------------------------------------------------------
(* Properties *)

Monitor == "monitor"

\* Thread t calls enter_standby (exit_standby) and runs it up to its first
\* return or to the stop (start) of the container.
EnterStep(t) ==
    /\ pc[t] = (IF t = Monitor THEN "e_begin" ELSE "idle")
    /\ t # Monitor => commands' = commands + 1
    /\ EnterBegin(t)

ExitStep(t) ==
    /\ pc[t] = (IF t = Monitor THEN "x_begin" ELSE "idle")
    /\ t # Monitor => commands' = commands + 1
    /\ ExitBegin(t)

\* The call returned r in this step.
Returned(t, op, r) ==
    /\ pc'[t] \notin CallPcs
    /\ hist'.op = op
    /\ hist'.ret = r

\* A tick of the monitor loop ends in this step.
TickEnds == pc[Monitor] # "top" /\ pc'[Monitor] = "top"

\* get_frame returns None in this step, and the tick ends at lines 553-560.
NoFrameTick ==
    /\ MON_GetFrameConnect \/ MON_GetFrame \/ MON_TakeFrame
    /\ pc'[Monitor] = "top"

\* get_frame returns a frame in this step.
FrameReturned ==
    /\ MON_GetFrame \/ MON_TakeFrame
    /\ sh.latest_frame # "none"

\* C1: in every reachable state failure_detected is true exactly when
\* current_status is 'failure'.
C1_FailureMirror ==
    state.failure_detected <=> (state.current_status = "failure")

\* C2: the monitor loop never calls analyze_frame at a moment when
\* standby_mode is true.
C2_NoDetectorInStandby ==
    [][MON_Analyze => ~state.standby_mode]_vars

C4_NoFrameCounted ==
    [][NoFrameTick
          => /\ state'.current_status = "error"
             /\ state'.failed_checks = state.failed_checks + 1
             /\ state'.total_checks = state.total_checks]_vars

\* C4, amended: a tick in which get_frame returns none sets current_status
\* to 'error' and leaves failed_checks and total_checks unchanged.
C4_NoFrameIsError ==
    [][NoFrameTick
          => /\ state'.current_status = "error"
             /\ state'.failed_checks = state.failed_checks
             /\ state'.total_checks = state.total_checks]_vars

C4_Witness ==
    /\ pc[Monitor] = "top"
    /\ state.current_status = "error"
    /\ state.error_message = "Cannot capture frame from stream"
    /\ state.failed_checks = 1
    /\ state.total_checks = 1

\* C5: from any state, a second enter_standby (exit_standby) call in a row
\* returns success and changes neither State nor the container.
C5_SecondCallIsNoOp ==
    [][\A t \in Threads :
          /\ (EnterStep(t) /\ hist.op = "enter")
                => /\ Returned(t, "enter", TRUE)
                   /\ state' = state /\ container' = container
          /\ (ExitStep(t) /\ hist.op = "exit")
                => /\ Returned(t, "exit", TRUE)
                   /\ state' = state /\ container' = container]_vars

\* C5, amended: after an enter_standby (exit_standby) call that returned
\* success, a second call of the same operation in a row returns success at
\* once and changes neither State nor the container.
C5_SecondCallAfterSuccess ==
    [][\A t \in Threads :
          /\ (EnterStep(t) /\ hist.op = "enter" /\ hist.ret)
                => /\ Returned(t, "enter", TRUE)
                   /\ state' = state /\ container' = container
          /\ (ExitStep(t) /\ hist.op = "exit" /\ hist.ret)
                => /\ Returned(t, "exit", TRUE)
                   /\ state' = state /\ container' = container]_vars

C5_Witness ==
    /\ hist = [op |-> "enter", ret |-> TRUE, again |-> TRUE]
    /\ state.standby_mode
    /\ container = "exited"

\* C6: with standby disabled every call of enter_standby and exit_standby
\* returns failure at once, and standby_mode and the container never change.
C6_DisabledIsNoOp ==
    [][~cfg.enabled
          => /\ state'.standby_mode = state.standby_mode
             /\ state'.ml_container_running = state.ml_container_running
             /\ container' = container
             /\ \A t \in Threads :
                  /\ EnterStep(t) => Returned(t, "enter", FALSE)
                  /\ ExitStep(t) => Returned(t, "exit", FALSE)]_vars

C6_Witness ==
    /\ ~cfg.enabled
    /\ hist.op = "exit" /\ ~hist.ret
    /\ commands = MaxCommands
    /\ ~state.standby_mode
    /\ container = "running"

\* C7: get_frame returns a frame only if the reader has placed one in the
\* buffer since the last get_frame took the buffer's content: a frame is
\* returned once, and of two get_frame calls with no capture between them the
\* second returns none.
C7_FrameDeliveredOnce ==
    [][FrameReturned => sh.captured]_vars

C7_Witness ==
    /\ state.last_check_time # NoTime
    /\ state.error_message = "Cannot capture frame from stream"
    /\ sh.reader = "alive" /\ sh.running
    /\ sh.latest_frame = "none"
    /\ pc[Monitor] = "top"

\* C8: a tick that obtains a frame sets current_status to 'idle' exactly
\* when no motion was ever observed or now - last_motion_time >=
\* IDLE_TIMEOUT; no other step of the monitor loop sets 'idle'.
C8_IdleAtTimeout ==
    [][/\ MON_Decide
          => /\ (state'.current_status = "idle" /\ pc'[Monitor] = "auto")
                <=> \/ state.last_motion_time = NoTime
                    \/ now - state.last_motion_time >= IDLE_TIMEOUT
             /\ pc'[Monitor] # "auto" => state' = state /\ pc'[Monitor] = "sb_chk"
       /\ (state'.current_status = "idle" /\ state.current_status # "idle")
          => MON_Decide]_vars

C8_Witness ==
    /\ pc[Monitor] = "auto"
    /\ state.current_status = "idle"
    /\ state.last_motion_time # NoTime
    /\ now - state.last_motion_time = IDLE_TIMEOUT

\* The confidences of the well-formed detections of a response.
Confidences(detections) ==
    {detections[i].conf : i \in {j \in DOMAIN detections : detections[j].wf}}

Highest(S) == IF S = {} THEN 0 ELSE CHOOSE c \in S : \A d \in S : d <= c

\* C9: after the detector returned a detection set, current_status becomes
\* 'failure' exactly when a detection has confidence >= DETECTION_THRESHOLD,
\* and then detection_confidence and the confidence of the published failure
\* event are the highest confidence of the set.
C9_FailureByThreshold ==
    [][MON_Report
          => LET C == Confidences(mon.detections)
                 hit == \E c \in C : c >= DETECTION_THRESHOLD
             IN  /\ (state'.current_status = "failure") <=> hit
                 /\ ~hit => state'.current_status = "ok" /\ outbox' = <<>>
                 /\ hit => /\ state'.detection_confidence = Highest(C)
                           /\ outbox' # <<>> =>
                                /\ outbox'[1].confidence = Highest(C)
                                /\ outbox'[1].detections = mon.detections]_vars

C9_Witness ==
    /\ state.current_status = "failure"
    /\ state.detection_confidence = 61
    /\ outbox # <<>>
    /\ outbox[1].confidence = 61
    /\ Len(outbox[1].detections) = 2
    /\ outbox[1].detections[1] = [wf |-> TRUE, conf |-> 61]
    /\ outbox[1].detections[2] = [wf |-> TRUE, conf |-> 30]

\* The six modes; the strings 'monitoring' and 'ok' denote the same mode.
Modes ==
    {"starting", "idle", "monitoring", "ok", "failure", "error", "standby"}

\* C10: current_status is always one of the six defined modes.
C10_StatusIsMode == state.current_status \in Modes

C10_Witness ==
    /\ state.current_status = "monitoring"
    /\ hist.op = "exit" /\ hist.ret
    /\ commands > 0

Heartbeat == "heartbeat"

\* The handler of lines 673-680 runs in this step.
HandlerRuns == MON_Record /\ mon.outcome = "raised"

\* C11: a tick that raises is recorded (error_message, current_status
\* 'error', failed_checks + 1) and the loop goes on to its next test; the
\* monitor loop and the heartbeat loop are left only with shutdown_event set.
C11_FailingTickGoesOn ==
    [][/\ HandlerRuns
          => /\ state'.current_status = "error"
             /\ state'.error_message = "exception"
             /\ state'.failed_checks = state.failed_checks + 1
             /\ pc'[Monitor] = "top"
       /\ (pc[Monitor] # "done" /\ pc'[Monitor] = "done") => shutdown
       /\ (pc[Heartbeat] # "hb_done" /\ pc'[Heartbeat] = "hb_done")
          => shutdown]_vars

\* A further tick runs after one that raised, with no shutdown.
C11_Witness ==
    /\ ~shutdown
    /\ state.failed_checks = 1
    /\ state.current_status = "error"
    /\ state.error_message = "exception"
    /\ pc[Monitor] = "gf_take" \/ pc[Monitor] = "decide"

\* No loop is running.
LoopsLeft ==
    /\ pc[Monitor] = "done"
    /\ pc[Heartbeat] = "hb_done"
    /\ sh.reader \in {"none", "dead"}

\* C12: once shutdown_event is set, the monitor loop, the heartbeat loop and
\* the reader loop are all left eventually, and stay so.
C12_LoopsExit == shutdown ~> []LoopsLeft

\* C13: last_check_time, last_motion_time and last_activity_time never
\* decrease.
C13_TimestampsMonotonic ==
    [][/\ state'.last_check_time >= state.last_check_time
       /\ state'.last_motion_time >= state.last_motion_time
       /\ state'.last_activity_time >= state.last_activity_time]_vars

\* C14: total_checks and failed_checks never decrease, and every update
\* after a detector call raises its counter by one, whatever the other
\* threads did between the read of the counter and the update.
C14_CountersNeverDecrease ==
    [][/\ state'.total_checks >= state.total_checks
       /\ state'.failed_checks >= state.failed_checks
       /\ MON_Record
          => IF mon.outcome = "result"
             THEN /\ state'.total_checks = state.total_checks + 1
                  /\ state'.failed_checks = state.failed_checks
             ELSE /\ state'.failed_checks = state.failed_checks + 1
                  /\ state'.total_checks = state.total_checks]_vars

\* Both counters were raised, the failed one in a tick during whose detector
\* call another thread entered standby.
C14_Witness ==
    /\ pc[Monitor] = "top"
    /\ state.total_checks = 1
    /\ state.failed_checks = 1
    /\ state.standby_mode
    /\ state.current_status = "error"
    /\ state.error_message = "ML API analysis failed"

\* C15: every tick that sets current_status to 'failure' hands a failure
\* event to the message bus, whatever the state of the connection.
C15_FailurePublished ==
    [][(MON_Report /\ state'.current_status = "failure")
          => /\ outbox' # <<>>
             /\ outbox'[1].confidence = mon.max_confidence
             /\ outbox'[1].detections = mon.detections]_vars

\* State never holds current_status 'standby' with standby_mode false.
StandbyStatusInStandby ==
    state.current_status = "standby" => state.standby_mode

\* C16: a heartbeat payload holds the values that State held at one
\* instant.  State holds current_status 'standby' only with standby_mode
\* true (StandbyStatusInStandby), so a payload holds them only so.
C16_HeartbeatIsSnapshot ==
    [][HB_ReadRest => (hb'.status = "standby" => hb'.standby_mode)]_vars

UnknownCommands == Commands \ {"standby", "active"}

\* C17: a control message with an unknown command or a malformed payload
\* changes neither State nor the container, and leaves the handler as it
\* was, ready for the next message.
C17_UnknownCommandIgnored ==
    [][\A command \in UnknownCommands :
          (pc["mqtt"] = "idle" /\ commands' = commands + 1
             /\ OnMessage(command))
          => /\ state' = state /\ container' = container
             /\ pc' = pc /\ hist' = hist /\ mq' = mq]_vars

\* One message was received and nothing was done: it was an unknown one.
C17_Witness ==
    /\ commands = 1
    /\ cfg.enabled /\ mq
    /\ hist = NoHist
    /\ pc["mqtt"] = "idle" /\ pc["http"] = "idle"

\* C18: a connect call inside the retry interval after an attempt changes
\* nothing and get_frame returns none; an attempt is made only when the
\* previous one is at least connection_retry_delay old.
C18_OneAttemptPerInterval ==
    [][MON_GetFrameConnect
          => LET inside ==
                   /\ sh.last_connection_attempt # NoTime
                   /\ now - sh.last_connection_attempt < connection_retry_delay
             IN  /\ inside => /\ sh' = sh
                              /\ state'.stream_connected = state.stream_connected
                              /\ pc'[Monitor] = "top"
                 /\ ~inside => sh'.last_connection_attempt = now]_vars

\* The reader has ended inside the retry interval of the attempt that
\* started it, after it delivered a frame, and get_frame is calling connect.
C18_Witness ==
    /\ pc[Monitor] = "get"
    /\ now = 1
    /\ sh.last_connection_attempt = now
    /\ sh.running /\ sh.reader = "dead"
    /\ state.last_check_time = now

\* C19: a tick that begins with standby_mode true calls neither get_frame
\* nor the detector.
C19_StandbyTickSkipsCapture ==
    [][/\ (pc[Monitor] = "get" /\ state.standby_mode)
          => ~(MON_GetFrame \/ MON_GetFrameConnect)
       /\ MON_Analyze => ~mon.startStandby]_vars

\* C19, amended: every tick calls get_frame, in standby too; a tick that
\* finds standby_mode true at line 607 calls no detector and sleeps.
C19_StandbySkipsDetector ==
    [][/\ (pc[Monitor] = "get" /\ pc'[Monitor] # "get")
          => MON_GetFrame \/ MON_GetFrameConnect
       /\ (pc[Monitor] = "sb_chk" /\ pc'[Monitor] # "sb_chk"
             /\ state.standby_mode)
          => pc'[Monitor] = "top" /\ state' = state /\ ml' = ml]_vars

\* A tick that began in standby has its frame and is at line 607, standby
\* still on.
C19_Witness ==
    /\ pc[Monitor] = "sb_chk"
    /\ mon.startStandby
    /\ state.standby_mode
    /\ state.last_check_time = now

\* C20: the value that follows 'standby' in current_status is 'monitoring'.
C20_StandbyThenMonitoring ==
    [][(state.current_status = "standby"
          /\ state'.current_status # "standby")
          => state'.current_status = "monitoring"]_vars

\* C21: current_status starts as 'starting', and the value that follows
\* 'starting' is 'idle', 'monitoring', 'ok' or 'error', whatever standby
\* commands arrive during the first tick.
C21_FirstStatus ==
    [][(state.current_status = "starting"
          /\ state'.current_status # "starting")
          => state'.current_status \in {"idle", "monitoring", "ok", "error"}]_vars

\* C22: a get_frame call that finds the capture pipeline not running calls
\* connect and returns none, whether connect succeeds or not and whatever
\* the buffer holds.
C22_ConnectingCallReturnsNone ==
    [][/\ (pc[Monitor] = "get" /\ NeedConnect /\ pc'[Monitor] # "get")
          => MON_GetFrameConnect
       /\ MON_TakeFrame => pc'[Monitor] = "top"]_vars

\* get_frame is about to call connect, outside the retry window, while the
\* buffer holds a frame that the reader placed before it ended.
StaleFrameWaits ==
    /\ pc[Monitor] = "get"
    /\ sh.reader = "dead"
    /\ sh.latest_frame = "frame"
    /\ ~RateLimited

\* Thread t runs the update of enter_standby (line 221) in this step.
EnterUpdates(t) == pc[t] = "e_upd" /\ pc'[t] # "e_upd"

\* C23: standby_mode becomes true only in the update of enter_standby, which
\* follows the successful stop and writes current_status 'standby' in the
\* same step; the update never produces standby_mode true with
\* ml_container_running true.
C23_StandbyAfterStop ==
    [][/\ (~state.standby_mode /\ state'.standby_mode)
          => \E t \in Threads : EnterUpdates(t)
       /\ \A t \in Threads :
            EnterUpdates(t)
               => /\ state'.standby_mode
                  /\ state'.current_status = "standby"
                  /\ ~state'.ml_container_running]_vars

\* The monitor loop calls enter_standby in this step.
AutoStandbyCalled == pc[Monitor] # "e_begin" /\ pc'[Monitor] = "e_begin"

\* The tick leaves the auto-standby test of lines 595-601 in this step.
AutoStandbyTested == pc[Monitor] = "auto" /\ pc'[Monitor] # "auto"

\* C24: the monitor loop calls enter_standby only in a tick that it
\* classified idle, and such a tick calls it exactly when standby is
\* enabled, standby_mode is false and now - last_activity_time >
\* STANDBY_AUTO_TIMEOUT.
C24_AutoStandbyWhenDue ==
    [][/\ (pc[Monitor] # "auto" /\ pc'[Monitor] = "auto")
          => /\ state'.current_status = "idle"
             /\ \/ state.last_motion_time = NoTime
                \/ now - state.last_motion_time >= IDLE_TIMEOUT
       /\ AutoStandbyCalled => pc[Monitor] = "auto"
       /\ AutoStandbyTested
          => (AutoStandbyCalled
                <=> /\ cfg.standby_enabled
                    /\ ~state.standby_mode
                    /\ now - state.last_activity_time > cfg.auto_timeout)]_vars

\* C24, amended: the same, with the call made only when, in addition,
\* STANDBY_AUTO_TIMEOUT is above 0.
C24_AutoStandbyWhenDueAndSet ==
    [][/\ (pc[Monitor] # "auto" /\ pc'[Monitor] = "auto")
          => /\ state'.current_status = "idle"
             /\ \/ state.last_motion_time = NoTime
                \/ now - state.last_motion_time >= IDLE_TIMEOUT
       /\ AutoStandbyCalled => pc[Monitor] = "auto"
       /\ AutoStandbyTested
          => (AutoStandbyCalled
                <=> /\ cfg.standby_enabled
                    /\ cfg.auto_timeout > 0
                    /\ ~state.standby_mode
                    /\ now - state.last_activity_time > cfg.auto_timeout)]_vars

\* An idle tick is calling enter_standby, the timeout having run out.
C24_Witness ==
    /\ pc[Monitor] = "e_begin"
    /\ state.current_status = "idle"
    /\ cfg.standby_enabled /\ cfg.auto_timeout > 0
    /\ ~state.standby_mode
    /\ now - state.last_activity_time > cfg.auto_timeout

\* The update of a detector call whose result was none, or present and
\* well-formed.
NoneRecorded == MON_Record /\ mon.outcome = "failed"

ResultRecorded == MON_Record /\ mon.outcome = "result"

\* C25: every detector call is followed by one update that changes exactly
\* one counter, by one: after a none result current_status is 'error',
\* failed_checks is one more and total_checks is unchanged; after a
\* well-formed result total_checks is one more, failed_checks is unchanged
\* and detection_confidence is the highest confidence of the result.
C25_OneCounterPerCall ==
    [][/\ MON_Analyze => pc'[Monitor] = "record" /\ mon'.outcome # "none"
       /\ MON_Record
          => state'.total_checks + state'.failed_checks
                = state.total_checks + state.failed_checks + 1
       /\ NoneRecorded
          => /\ state'.current_status = "error"
             /\ state'.failed_checks = state.failed_checks + 1
             /\ state'.total_checks = state.total_checks
       /\ ResultRecorded
          => /\ state'.total_checks = state.total_checks + 1
             /\ state'.failed_checks = state.failed_checks
             /\ state'.detection_confidence
                   = Highest(Confidences(mon.detections))]_vars

\* A none result was recorded after a result with a detection had been.
C25_Witness ==
    /\ pc[Monitor] = "top"
    /\ state.current_status = "error"
    /\ state.error_message = "ML API analysis failed"
    /\ state.failed_checks = 1
    /\ state.total_checks = 1
    /\ state.detection_confidence = 61

\* C26: once stream_handler.disconnect has returned, the acquisition is
\* stopped for good: no reader thread runs on an open capture and
\* stream_connected is false, whatever a tick in flight does.
C26_DisconnectedForGood ==
    pc["main"] = "m_done"
       => /\ sh.reader \in {"none", "dead"}
          /\ ~state.stream_connected

\* Thread t's stop_container (start_container) returns False in this step,
\* and with it enter_standby (exit_standby).
StopFails(t) == pc[t] = "e_stop" /\ Returned(t, "enter", FALSE)

StartFails(t) == pc[t] = "x_start" /\ Returned(t, "exit", FALSE)

\* C27: an enter_standby call whose stop fails returns failure and leaves
\* standby_mode, current_status and ml_container_running as they are; an
\* exit_standby call whose start fails returns failure and leaves these and
\* last_activity_time as they are.
C27_FailedCallChangesNothing ==
    [][\A t \in Threads :
          /\ (pc[t] = "e_stop" /\ pc'[t] # "e_stop" /\ container' # "exited")
                => StopFails(t)
          /\ (pc[t] = "x_start" /\ pc'[t] # "x_start" /\ container' # "running")
                => StartFails(t)
          /\ (StopFails(t) \/ StartFails(t))
                => /\ state'.standby_mode = state.standby_mode
                   /\ state'.current_status = state.current_status
                   /\ state'.ml_container_running = state.ml_container_running
                   /\ state'.last_activity_time = state.last_activity_time]_vars

\* In standby, the exit_standby call that returned last failed to start the
\* container.
C27_Witness ==
    /\ cfg.enabled
    /\ hist.op = "exit" /\ ~hist.ret
    /\ state.standby_mode
    /\ state.current_status = "standby"
    /\ ~state.ml_container_running
    /\ container = "exited"
    /\ \A t \in Threads : pc[t] \notin CallPcs

\* No thread is inside enter_standby or exit_standby.
NoCallInProgress == \A t \in Threads : pc[t] \notin CallPcs

\* C28: whenever no enter_standby or exit_standby call is in progress,
\* standby_mode is true exactly when ml_container_running is false, given
\* that every stop and every start succeeds.
C28_StandbyIffStopped ==
    NoCallInProgress => (state.standby_mode <=> ~state.ml_container_running)

====
